---- MODULE Spec2Model ----
(***************************************************************************)
(* The boxing ring (boxing/models/ring_model.py) and the boxer repository  *)
(* it reports to (boxing/models/boxers_model.py).                          *)
(*                                                                         *)
(* Numbers with a fractional part are kept as scaled integers: a reach is  *)
(* held in tenths (750 is 75.0), a skill in hundredths (60750 is 607.5)    *)
(* and a random draw in hundredths (73 is 0.73).                           *)
(***************************************************************************)
EXTENDS Integers, Sequences, FiniteSets, TLC

VARIABLES ring, boxers, nextId, last, tally

vars == <<ring, boxers, nextId, last, tally>>

(* ---------------------------------------------------------------- bounds *)

\* Ids the repository hands out: 1..MaxId.
MaxId == 2

\* A boxer's fights counter is followed up to MaxFights.
MaxFights == 2

\* The heaviest weight get_weight_class is applied to.
MaxWeight == 210

(* ------------------------------------------------------------- constants *)

MinWeight == 125
MinAge == 18
MaxAge == 40
YoungAge == 25
OldAge == 35
FeatherMin == 125
LightMin == 133
MiddleMin == 166
HeavyMin == 203
RingCapacity == 2

(* ---------------------------------------------------------- exceptions *)

\* How a call ends: it returns (NoError) or raises an exception of a type,
\* with a message (the messages' interpolated values are left out).
NoError == [type |-> "none", msg |-> ""]
ValueError(msg) == [type |-> "ValueError", msg |-> msg]
TypeError(msg) == [type |-> "TypeError", msg |-> msg]
RuntimeError(msg) == [type |-> "RuntimeError", msg |-> msg]
SqliteError == [type |-> "sqlite3.Error", msg |-> ""]

(* ------------------------------------------------------ the Boxer values *)

\* get_weight_class with the heavyweight boundary exclusive.
get_weight_class_exclusive(weight) ==
    IF weight > HeavyMin THEN "HEAVYWEIGHT"
    ELSE IF weight >= MiddleMin THEN "MIDDLEWEIGHT"
    ELSE IF weight >= LightMin THEN "LIGHTWEIGHT"
    ELSE IF weight >= FeatherMin THEN "FEATHERWEIGHT"
    ELSE "ValueError"

\* get_weight_class: the band of a weight, or the ValueError it raises.
get_weight_class(weight) ==
    IF weight >= HeavyMin THEN "HEAVYWEIGHT"
    ELSE IF weight >= MiddleMin THEN "MIDDLEWEIGHT"
    ELSE IF weight >= LightMin THEN "LIGHTWEIGHT"
    ELSE IF weight >= FeatherMin THEN "FEATHERWEIGHT"
    ELSE "ValueError"

\* The Boxer dataclass: __post_init__ derives weight_class from weight.
Boxer(id, name, weight, height, reach, age) ==
    [cls |-> "Boxer", id |-> id, name |-> name, weight |-> weight,
     height |-> height, reach |-> reach, age |-> age,
     weight_class |-> get_weight_class(weight)]

\* Values that are no Boxer: a dict with a boxer's keys, and None.
NonBoxers ==
    { [cls |-> "dict", id |-> 1, name |-> "Ali", weight |-> 200,
       height |-> 180, reach |-> 750, age |-> 30, weight_class |-> "MIDDLEWEIGHT"],
      [cls |-> "NoneType", id |-> 0, name |-> "", weight |-> 0,
       height |-> 0, reach |-> 0, age |-> 0, weight_class |-> ""] }

\* isinstance(boxer, Boxer)
isinstance_Boxer(x) == x.cls = "Boxer"

(* ------------------------------------------------------- the repository *)

\* The attribute tuples create_boxer is called with: the two boxers of the
\* ring tests, and one tuple for each rejected attribute.
Ali   == [name |-> "Ali",   weight |-> 200, height |-> 180, reach |-> 750, age |-> 30]
Tyson == [name |-> "Tyson", weight |-> 230, height |-> 185, reach |-> 800, age |-> 35]

CreateInputs ==
    { Ali, Tyson,
      [Ali EXCEPT !.weight = 124],
      [Ali EXCEPT !.height = 0],
      [Tyson EXCEPT !.reach = 0],
      [Ali EXCEPT !.age = 17],
      [Tyson EXCEPT !.age = 41] }

\* The id the repository gives the next inserted row.
NewId(nid) == nid

\* create_boxer rejecting a height below 0 only.
create_boxer_height_negative(db, nid, c, fault) ==
    IF c.weight < MinWeight
    THEN [db |-> db, nid |-> nid, err |-> ValueError("Invalid weight. Must be at least 125.")]
    ELSE IF c.height < 0
    THEN [db |-> db, nid |-> nid, err |-> ValueError("Invalid height. Must be greater than 0.")]
    ELSE IF c.reach <= 0
    THEN [db |-> db, nid |-> nid, err |-> ValueError("Invalid reach. Must be greater than 0.")]
    ELSE IF ~(MinAge <= c.age /\ c.age <= MaxAge)
    THEN [db |-> db, nid |-> nid, err |-> ValueError("Invalid age. Must be between 18 and 40.")]
    ELSE IF fault THEN [db |-> db, nid |-> nid, err |-> SqliteError]
    ELSE IF \E i \in DOMAIN db : db[i].name = c.name
    THEN [db |-> db, nid |-> nid, err |-> ValueError("Boxer with name already exists")]
    ELSE [db |-> [i \in DOMAIN db \cup {NewId(nid)} |->
                    IF i = NewId(nid)
                    THEN [name |-> c.name, weight |-> c.weight, height |-> c.height,
                          reach |-> c.reach, age |-> c.age, fights |-> 0, wins |-> 0]
                    ELSE db[i]],
          nid |-> nid + 1, err |-> NoError]

\* create_boxer without the SELECT for the name.
create_boxer_no_name_check(db, nid, c, fault) ==
    IF c.weight < MinWeight
    THEN [db |-> db, nid |-> nid, err |-> ValueError("Invalid weight. Must be at least 125.")]
    ELSE IF c.height <= 0
    THEN [db |-> db, nid |-> nid, err |-> ValueError("Invalid height. Must be greater than 0.")]
    ELSE IF c.reach <= 0
    THEN [db |-> db, nid |-> nid, err |-> ValueError("Invalid reach. Must be greater than 0.")]
    ELSE IF ~(MinAge <= c.age /\ c.age <= MaxAge)
    THEN [db |-> db, nid |-> nid, err |-> ValueError("Invalid age. Must be between 18 and 40.")]
    ELSE IF fault THEN [db |-> db, nid |-> nid, err |-> SqliteError]
    ELSE [db |-> [i \in DOMAIN db \cup {NewId(nid)} |->
                    IF i = NewId(nid)
                    THEN [name |-> c.name, weight |-> c.weight, height |-> c.height,
                          reach |-> c.reach, age |-> c.age, fights |-> 0, wins |-> 0]
                    ELSE db[i]],
          nid |-> nid + 1, err |-> NoError]

\* create_boxer: validate, refuse a name already stored, insert with zeroed
\* counters.  fault: the database raises sqlite3.Error.
create_boxer(db, nid, c, fault) ==
    IF c.weight < MinWeight
    THEN [db |-> db, nid |-> nid, err |-> ValueError("Invalid weight. Must be at least 125.")]
    ELSE IF c.height <= 0
    THEN [db |-> db, nid |-> nid, err |-> ValueError("Invalid height. Must be greater than 0.")]
    ELSE IF c.reach <= 0
    THEN [db |-> db, nid |-> nid, err |-> ValueError("Invalid reach. Must be greater than 0.")]
    ELSE IF ~(MinAge <= c.age /\ c.age <= MaxAge)
    THEN [db |-> db, nid |-> nid, err |-> ValueError("Invalid age. Must be between 18 and 40.")]
    ELSE IF fault THEN [db |-> db, nid |-> nid, err |-> SqliteError]
    ELSE IF \E i \in DOMAIN db : db[i].name = c.name
    THEN [db |-> db, nid |-> nid, err |-> ValueError("Boxer with name already exists")]
    ELSE [db |-> [i \in DOMAIN db \cup {NewId(nid)} |->
                    IF i = NewId(nid)
                    THEN [name |-> c.name, weight |-> c.weight, height |-> c.height,
                          reach |-> c.reach, age |-> c.age, fights |-> 0, wins |-> 0]
                    ELSE db[i]],
          nid |-> nid + 1, err |-> NoError]

\* delete_boxer
delete_boxer(db, id, fault) ==
    IF fault THEN [db |-> db, err |-> SqliteError]
    ELSE IF id \notin DOMAIN db
    THEN [db |-> db, err |-> ValueError("Boxer with ID not found.")]
    ELSE [db |-> [i \in DOMAIN db \ {id} |-> db[i]], err |-> NoError]

\* get_boxer_by_id, for a stored id: a Boxer built from the row.
get_boxer_by_id(db, id) ==
    Boxer(id, db[id].name, db[id].weight, db[id].height, db[id].reach, db[id].age)

\* update_boxer_stats counting a win in wins alone.
update_boxer_stats_wins_only(db, id, result, fault) ==
    IF result \notin {"win", "loss"}
    THEN [db |-> db, err |-> ValueError("Invalid result. Expected 'win' or 'loss'.")]
    ELSE IF fault THEN [db |-> db, err |-> SqliteError]
    ELSE IF id \notin DOMAIN db
    THEN [db |-> db, err |-> ValueError("Boxer with ID not found.")]
    ELSE IF result = "win"
    THEN [db |-> [db EXCEPT ![id].wins = @ + 1], err |-> NoError]
    ELSE [db |-> [db EXCEPT ![id].fights = @ + 1], err |-> NoError]

\* update_boxer_stats whose UPDATE statements lack WHERE id = ?.
update_boxer_stats_no_where(db, id, result, fault) ==
    IF result \notin {"win", "loss"}
    THEN [db |-> db, err |-> ValueError("Invalid result. Expected 'win' or 'loss'.")]
    ELSE IF fault THEN [db |-> db, err |-> SqliteError]
    ELSE IF id \notin DOMAIN db
    THEN [db |-> db, err |-> ValueError("Boxer with ID not found.")]
    ELSE IF result = "win"
    THEN [db |-> [i \in DOMAIN db |->
                    [db[i] EXCEPT !.fights = @ + 1, !.wins = @ + 1]],
          err |-> NoError]
    ELSE [db |-> [i \in DOMAIN db |-> [db[i] EXCEPT !.fights = @ + 1]],
          err |-> NoError]

\* update_boxer_stats looking the id up before it tests the result.
update_boxer_stats_lookup_first(db, id, result, fault) ==
    IF fault THEN [db |-> db, err |-> SqliteError]
    ELSE IF id \notin DOMAIN db
    THEN [db |-> db, err |-> ValueError("Boxer with ID not found.")]
    ELSE IF result \notin {"win", "loss"}
    THEN [db |-> db, err |-> ValueError("Invalid result. Expected 'win' or 'loss'.")]
    ELSE IF result = "win"
    THEN [db |-> [db EXCEPT ![id].fights = @ + 1, ![id].wins = @ + 1],
          err |-> NoError]
    ELSE [db |-> [db EXCEPT ![id].fights = @ + 1], err |-> NoError]

\* update_boxer_stats adding to wins on a loss too.
update_boxer_stats_loss_wins(db, id, result, fault) ==
    IF result \notin {"win", "loss"}
    THEN [db |-> db, err |-> ValueError("Invalid result. Expected 'win' or 'loss'.")]
    ELSE IF fault THEN [db |-> db, err |-> SqliteError]
    ELSE IF id \notin DOMAIN db
    THEN [db |-> db, err |-> ValueError("Boxer with ID not found.")]
    ELSE [db |-> [db EXCEPT ![id].fights = @ + 1, ![id].wins = @ + 1],
          err |-> NoError]

\* update_boxer_stats: fights + 1, and wins + 1 on a win.
update_boxer_stats(db, id, result, fault) ==
    IF result \notin {"win", "loss"}
    THEN [db |-> db, err |-> ValueError("Invalid result. Expected 'win' or 'loss'.")]
    ELSE IF fault THEN [db |-> db, err |-> SqliteError]
    ELSE IF id \notin DOMAIN db
    THEN [db |-> db, err |-> ValueError("Boxer with ID not found.")]
    ELSE IF result = "win"
    THEN [db |-> [db EXCEPT ![id].fights = @ + 1, ![id].wins = @ + 1],
          err |-> NoError]
    ELSE [db |-> [db EXCEPT ![id].fights = @ + 1], err |-> NoError]

\* WHERE fights > 0: the ids of the rows the leaderboard query selects.
leaderboard_rows(db) == { i \in DOMAIN db : db[i].fights > 0 }

\* ORDER BY ... ASC: the row of a comes after the row of b.
leaderboard_before_asc(db, sort_by, a, b) ==
    IF sort_by = "win_pct"
    THEN db[a].wins * db[b].fights <= db[b].wins * db[a].fights
    ELSE db[a].wins <= db[b].wins

\* ORDER BY win_pct DESC or ORDER BY wins DESC: the row of a may come before
\* the row of b.  win_pct is wins * 1.0 / fights, and w1/f1 >= w2/f2 iff
\* w1 * f2 >= w2 * f1.
leaderboard_before(db, sort_by, a, b) ==
    IF sort_by = "win_pct"
    THEN db[a].wins * db[b].fights >= db[b].wins * db[a].fights
    ELSE db[a].wins >= db[b].wins

\* The orders in which the query may return its rows: each selected row once,
\* sorted on the key; rows of equal key come in an order the query leaves open.
leaderboard_orders(db, sort_by) ==
    LET ids == leaderboard_rows(db)
        n == Cardinality(ids)
    IN  { o \in [1..n -> ids] :
            /\ \A a, b \in 1..n : a # b => o[a] # o[b]
            /\ \A a, b \in 1..n : a < b => leaderboard_before(db, sort_by, o[a], o[b]) }

\* round(win_pct * 100, 1), in tenths of a percent.
win_pct(wins, fights) == (2000 * wins + fights) \div (2 * fights)

\* One entry of the leaderboard, from a row.
leaderboard_entry(db, i) ==
    [id |-> i, name |-> db[i].name, weight |-> db[i].weight,
     height |-> db[i].height, reach |-> db[i].reach, age |-> db[i].age,
     weight_class |-> get_weight_class(db[i].weight),
     fights |-> db[i].fights, wins |-> db[i].wins,
     win_pct |-> win_pct(db[i].wins, db[i].fights)]

\* get_leaderboard.  order: the order in which the query returned the rows.
get_leaderboard(db, sort_by, order, fault) ==
    IF sort_by \notin {"win_pct", "wins"}
    THEN [err |-> ValueError("Invalid sort_by parameter"), ret |-> <<>>]
    ELSE IF fault THEN [err |-> SqliteError, ret |-> <<>>]
    ELSE [err |-> NoError,
          ret |-> [k \in 1..Len(order) |-> leaderboard_entry(db, order[k])]]

(* ------------------------------------------------------------- the ring *)

\* get_fighting_skill with age 25 counted as young.
get_fighting_skill_young_inclusive(b) ==
    LET age_modifier == IF b.age <= YoungAge THEN -1
                        ELSE IF b.age > OldAge THEN -2 ELSE 0
    IN  (b.weight * Len(b.name)) * 100 + b.reach + age_modifier * 100

\* get_fighting_skill, in hundredths.
get_fighting_skill(b) ==
    LET age_modifier == IF b.age < YoungAge THEN -1
                        ELSE IF b.age > OldAge THEN -2 ELSE 0
    IN  (b.weight * Len(b.name)) * 100 + b.reach + age_modifier * 100

abs(x) == IF x < 0 THEN -x ELSE x

\* LogitPct[k]: floor(100 * ln(r / (100 - r))) for the draw r = 49 + k.
LogitPct ==
    << 0, 4, 8, 12, 16, 20, 24, 28, 32, 36, 40, 44, 48, 53, 57, 61, 66, 70, 75,
       80, 84, 89, 94, 99, 104, 109, 115, 120, 126, 132, 138, 145, 151, 158,
       165, 173, 181, 190, 199, 209, 219, 231, 244, 258, 275, 294, 317, 347,
       389, 459 >>

\* random_number < normalized_delta, where normalized_delta is
\* 1 / (1 + e ** (-delta)), for a draw r in hundredths and delta >= 0 in
\* hundredths: r/100 < 1/(1 + e^-d) iff d > ln(r / (100 - r)).
below_normalized_delta(r, delta) ==
    IF r < 50 THEN TRUE ELSE delta > LogitPct[r - 49]

\* What happens to the request get_random sends: an answer holding a draw, or
\* a timeout, a transport error or an answer that is no number.
Draws == {49, 50, 99}
RandomFailures == {"Timeout", "RequestException", "InvalidResponse"}
Responses ==
    { [kind |-> "ok", value |-> d] : d \in Draws }
        \cup { [kind |-> f, value |-> -1] : f \in RandomFailures }

\* get_random: the draw, or the error raised.
get_random(x) ==
    IF x.kind = "Timeout"
    THEN [err |-> RuntimeError("Request to random.org timed out."), value |-> -1]
    ELSE IF x.kind = "RequestException"
    THEN [err |-> RuntimeError("Request to random.org failed"), value |-> -1]
    ELSE IF x.kind = "InvalidResponse"
    THEN [err |-> ValueError("Invalid response from random.org"), value |-> -1]
    ELSE [err |-> NoError, value |-> x.value]

\* get_boxers
get_boxers(rg) == rg

\* clear_ring taking out the latest boxer only (pop() for clear()).
clear_ring_pops(rg) == IF rg = <<>> THEN rg ELSE SubSeq(rg, 1, Len(rg) - 1)

\* clear_ring
clear_ring(rg) == IF rg = <<>> THEN rg ELSE <<>>

\* enter_ring with the capacity test off by one (> for >=).
enter_ring_off_by_one(rg, x) ==
    IF ~isinstance_Boxer(x)
    THEN [ring |-> rg, err |-> TypeError("Invalid type: Expected 'Boxer'")]
    ELSE IF Len(rg) > RingCapacity
    THEN [ring |-> rg, err |-> ValueError("Ring is full, cannot add more boxers.")]
    ELSE [ring |-> Append(rg, x), err |-> NoError]

\* enter_ring making room in a full ring instead of refusing.
enter_ring_replaces(rg, x) ==
    IF ~isinstance_Boxer(x)
    THEN [ring |-> rg, err |-> TypeError("Invalid type: Expected 'Boxer'")]
    ELSE IF Len(rg) >= RingCapacity
    THEN [ring |-> Append(Tail(rg), x), err |-> NoError]
    ELSE [ring |-> Append(rg, x), err |-> NoError]

\* enter_ring testing the capacity before the type.
enter_ring_capacity_first(rg, x) ==
    IF Len(rg) >= RingCapacity
    THEN [ring |-> rg, err |-> ValueError("Ring is full, cannot add more boxers.")]
    ELSE IF ~isinstance_Boxer(x)
    THEN [ring |-> rg, err |-> TypeError("Invalid type: Expected 'Boxer'")]
    ELSE [ring |-> Append(rg, x), err |-> NoError]

\* enter_ring putting the boxer at the front (insert(0, boxer) for append).
enter_ring_prepends(rg, x) ==
    IF ~isinstance_Boxer(x)
    THEN [ring |-> rg, err |-> TypeError("Invalid type: Expected 'Boxer'")]
    ELSE IF Len(rg) >= RingCapacity
    THEN [ring |-> rg, err |-> ValueError("Ring is full, cannot add more boxers.")]
    ELSE [ring |-> <<x>> \o rg, err |-> NoError]

\* enter_ring
enter_ring(rg, x) ==
    IF ~isinstance_Boxer(x)
    THEN [ring |-> rg, err |-> TypeError("Invalid type: Expected 'Boxer'")]
    ELSE IF Len(rg) >= RingCapacity
    THEN [ring |-> rg, err |-> ValueError("Ring is full, cannot add more boxers.")]
    ELSE [ring |-> Append(rg, x), err |-> NoError]

\* fight() clearing the ring on its way out when it raises.
fight_raised_clears(rg, db, err, rand) ==
    [ring |-> <<>>, db |-> db, err |-> err, ret |-> "", calls |-> <<>>,
     rand |-> rand, r |-> -1]

\* fight() raising before any stat update: nothing was assigned.
fight_raised(rg, db, err, rand) ==
    [ring |-> rg, db |-> db, err |-> err, ret |-> "", calls |-> <<>>,
     rand |-> rand, r |-> -1]

\* The branches of the comparison exchanged.
fight_decide_swapped(first, boxer_1, boxer_2) ==
    IF first THEN [winner |-> boxer_2, loser |-> boxer_1]
    ELSE [winner |-> boxer_1, loser |-> boxer_2]

\* The winner and the loser, from the comparison of the draw.
fight_decide(first, boxer_1, boxer_2) ==
    IF first THEN [winner |-> boxer_1, loser |-> boxer_2]
    ELSE [winner |-> boxer_2, loser |-> boxer_1]

\* The two stat updates made in one transaction: a failure undoes both.
fight_report_atomic(db, winner, loser, fault) ==
    LET u1 == update_boxer_stats(db, winner.id, "win", fault = "win")
        u2 == update_boxer_stats(u1.db, loser.id, "loss", fault = "loss")
    IN  IF u1.err # NoError
        THEN [db |-> db, err |-> u1.err, calls |-> << <<winner.id, "win">> >>]
        ELSE [db |-> IF u2.err # NoError THEN db ELSE u2.db, err |-> u2.err,
              calls |-> << <<winner.id, "win">>, <<loser.id, "loss">> >>]

\* The two stat updates, in order; the first that raises ends the call.
\* fault: the update ("win" or "loss") at which the database raises.
fight_report(db, winner, loser, fault) ==
    LET u1 == update_boxer_stats(db, winner.id, "win", fault = "win")
        u2 == update_boxer_stats(u1.db, loser.id, "loss", fault = "loss")
    IN  IF u1.err # NoError
        THEN [db |-> u1.db, err |-> u1.err, calls |-> << <<winner.id, "win">> >>]
        ELSE [db |-> u2.db, err |-> u2.err,
              calls |-> << <<winner.id, "win">>, <<loser.id, "loss">> >>]

\* The ring cleared after the stat updates, whether or not one of them raised.
fight_finish_always(rg, err) == clear_ring(rg)

\* The ring left as it is after the stat updates.
fight_finish_keeps(rg, err) == rg

\* The ring after the stat updates: cleared when both went through.
fight_finish(rg, err) == IF err # NoError THEN rg ELSE clear_ring(rg)

\* fight() without its length test: unpacking the ring raises instead.
fight_too_few_unpack(rg, db) ==
    fight_raised(rg, db, ValueError("not enough values to unpack"), "")

\* fight() with fewer than two boxers in the ring.
fight_too_few(rg, db) ==
    fight_raised(rg, db, ValueError("There must be two boxers to start a fight."), "")

\* fight.  x: what happens to get_random's request.
fight(rg, db, x, fault) ==
    IF Len(rg) < 2 THEN fight_too_few(rg, db)
    ELSE
    LET boxer_1 == get_boxers(rg)[1]
        boxer_2 == get_boxers(rg)[2]
        skill_1 == get_fighting_skill(boxer_1)
        skill_2 == get_fighting_skill(boxer_2)
        delta == abs(skill_1 - skill_2)
        random_number == get_random(x)
        d == fight_decide(below_normalized_delta(random_number.value, delta),
                          boxer_1, boxer_2)
        rep == fight_report(db, d.winner, d.loser, fault)
    IN  IF random_number.err # NoError
        THEN fight_raised(rg, db, random_number.err, x.kind)
        ELSE [ring |-> fight_finish(rg, rep.err), db |-> rep.db, err |-> rep.err,
              ret |-> IF rep.err # NoError THEN "" ELSE d.winner.name,
              calls |-> rep.calls, rand |-> x.kind, r |-> random_number.value]

(* ------------------------------------------------------------ the calls *)

\* The record of the latest call: its name and argument, the ring and the
\* repository when it started, how it ended, what it returned, the stat
\* updates it invoked, what became of its get_random request ("" when it sent
\* none) and the draw it got (-1 when none).
NoArg == [cls |-> "", id |-> 0, name |-> "", weight |-> 0, height |-> 0,
          reach |-> 0, age |-> 0, weight_class |-> ""]

Call(op, arg, err, ret, calls, rand, r) ==
    [op |-> op, arg |-> arg, ring0 |-> ring, db0 |-> boxers, err |-> err,
     ret |-> ret, calls |-> calls, rand |-> rand, r |-> r]

Init ==
    /\ ring = <<>>
    /\ boxers = << >>
    /\ nextId = 1
    /\ tally = [k |-> 0, partial |-> FALSE]
    /\ last = [op |-> "__init__", arg |-> NoArg, ring0 |-> <<>>, db0 |-> << >>,
               err |-> NoError, ret |-> "", calls |-> <<>>, rand |-> "", r |-> -1]

\* The Boxer values a caller holds: those the repository returns, and one it
\* constructed itself, as the ring tests do.
Constructed == { Boxer(1, "Joe", 200, 175, 800, 30) }
Fetched == { get_boxer_by_id(boxers, id) : id \in DOMAIN boxers }

\* A call of enter_ring with one of the given values.
EnterRingOf(values) ==
    \E x \in values :
      \E res \in {enter_ring(ring, x)} :
        /\ ring' = res.ring
        /\ last' = Call("enter_ring", x, res.err, "", <<>>, "", -1)
        /\ UNCHANGED <<boxers, nextId>>

EnterRing == EnterRingOf(Fetched \cup Constructed \cup NonBoxers)

ClearRing ==
    /\ ring' = clear_ring(ring)
    /\ last' = Call("clear_ring", NoArg, NoError, "", <<>>, "", -1)
    /\ UNCHANGED <<boxers, nextId>>

GetBoxers ==
    /\ last' = Call("get_boxers", NoArg, NoError, get_boxers(ring), <<>>, "", -1)
    /\ UNCHANGED <<ring, boxers, nextId>>

\* What a fight() call meets: get_random's outcome and, when a draw came
\* back, the stat update at which the database raises, if any.
FightInputs ==
    { inp \in [x : Responses, fault : {"none", "win", "loss"}] :
        inp.x.kind # "ok" => inp.fault = "none" }

Fight ==
    \E inp \in FightInputs :
      \E res \in {fight(ring, boxers, inp.x, inp.fault)} :
        /\ \A i \in DOMAIN res.db : res.db[i].fights <= MaxFights
        /\ ring' = res.ring
        /\ boxers' = res.db
        /\ last' = Call("fight", NoArg, res.err, res.ret, res.calls, res.rand, res.r)
        /\ UNCHANGED nextId

\* A call of create_boxer with one of the given tuples; faults: whether the
\* database may raise.
CreateBoxerOf(inputs, faults) ==
    \E c \in inputs, fault \in faults :
      \E res \in {create_boxer(boxers, nextId, c, fault)} :
        /\ nextId <= MaxId
        /\ boxers' = res.db
        /\ nextId' = res.nid
        /\ last' = Call("create_boxer", c, res.err, "", <<>>, "", -1)
        /\ UNCHANGED ring

CreateBoxer == CreateBoxerOf(CreateInputs, BOOLEAN)

DeleteBoxer ==
    \E id \in 1..MaxId, fault \in BOOLEAN :
      \E res \in {delete_boxer(boxers, id, fault)} :
        /\ boxers' = res.db
        /\ last' = Call("delete_boxer", NoArg, res.err, "", <<>>, "", -1)
        /\ UNCHANGED <<ring, nextId>>

\* The calls of update_boxer_stats: an id, stored or not, a result string,
\* and whether the database raises.  StatCalls: the calls with a result the
\* function accepts, on a database that answers.
AllStatCalls == [id : 1..MaxId, result : {"win", "loss", "draw"}, fault : BOOLEAN]
StatCalls == { u \in AllStatCalls : u.result # "draw" /\ ~u.fault }

UpdateBoxerStats(calls) ==
    \E u \in calls :
      \E res \in {update_boxer_stats(boxers, u.id, u.result, u.fault)} :
        /\ \A i \in DOMAIN res.db : res.db[i].fights <= MaxFights
        /\ boxers' = res.db
        /\ last' = Call("update_boxer_stats", [id |-> u.id, result |-> u.result],
                        res.err, "", <<>>, "", -1)
        /\ UNCHANGED <<ring, nextId>>

Next ==
    \/ EnterRing /\ UNCHANGED tally
    \/ ClearRing /\ UNCHANGED tally
    \/ GetBoxers /\ UNCHANGED tally
    \/ Fight /\ UNCHANGED tally
    \/ CreateBoxer /\ UNCHANGED tally
    \/ DeleteBoxer /\ UNCHANGED tally

Spec == Init /\ [][Next]_vars

\* The sort_by values get_leaderboard is called with.
SortKeys == {"wins", "win_pct", "losses"}

GetLeaderboard ==
    \E sort_by \in SortKeys, fault \in BOOLEAN :
      \E order \in leaderboard_orders(boxers, sort_by) :
        \E res \in {get_leaderboard(boxers, sort_by, order, fault)} :
          /\ last' = Call("get_leaderboard", [sort_by |-> sort_by], res.err,
                          res.ret, <<>>, "", -1)
          /\ UNCHANGED <<ring, boxers, nextId>>

\* The repository's calls alone.
RepoNext ==
    \/ CreateBoxer /\ UNCHANGED tally
    \/ DeleteBoxer /\ UNCHANGED tally
    \/ UpdateBoxerStats(AllStatCalls) /\ UNCHANGED tally
    \/ GetLeaderboard /\ UNCHANGED tally

RepoSpec == Init /\ [][RepoNext]_vars

\* The calls that reach the counters: the repository's that insert, delete or
\* update a row, and the fights of the boxers who entered the ring.
StatsNext ==
    \/ CreateBoxerOf({Ali, Tyson}, {FALSE}) /\ UNCHANGED tally
    \/ DeleteBoxer /\ UNCHANGED tally
    \/ UpdateBoxerStats(StatCalls) /\ UNCHANGED tally
    \/ EnterRingOf(Fetched \cup Constructed) /\ UNCHANGED tally
    \/ Fight /\ UNCHANGED tally

StatsSpec == Init /\ [][StatsNext]_vars

\* The weights get_weight_class is applied to, a negative one included.
Weights == -1..MaxWeight

\* A call of get_weight_class.
GetWeightClass ==
    \E w \in Weights :
        \E wc \in {get_weight_class(w)} :
            /\ last' = IF wc = "ValueError"
                       THEN Call("get_weight_class", [NoArg EXCEPT !.weight = w],
                                 ValueError("Invalid weight. Weight must be at least 125."),
                                 "", <<>>, "", -1)
                       ELSE Call("get_weight_class", [NoArg EXCEPT !.weight = w],
                                 NoError, wc, <<>>, "", -1)
            /\ UNCHANGED <<ring, boxers, nextId>>

\* The boxers get_fighting_skill is applied to: every attribute takes two or
\* more values, and age takes those on both sides of each boundary.
SkillInputs ==
    { Boxer(id, name, weight, height, reach, age) :
        id \in {1, 2}, name \in {"Al", "Ali", "Tyson"}, weight \in {125, 200},
        height \in {170, 180}, reach \in {700, 755},
        age \in {YoungAge - 1, YoungAge, 30, OldAge, OldAge + 1} }

\* A call of get_fighting_skill.
GetFightingSkill ==
    \E b \in SkillInputs :
        /\ last' = Call("get_fighting_skill", b, NoError, get_fighting_skill(b),
                        <<>>, "", -1)
        /\ UNCHANGED <<ring, boxers, nextId>>

\* The two pure functions, applied to their inputs.
PureNext ==
    \/ GetWeightClass /\ UNCHANGED tally
    \/ GetFightingSkill /\ UNCHANGED tally

PureSpec == Init /\ [][PureNext]_vars

\* The tally of the fights: k counts the fight() calls that returned, partial
\* tells whether a fight() raised after its 'win' update had been applied.
\* Only TallyNext keeps it; the other specifications leave it as it starts.
TallyFight ==
    /\ Fight
    /\ tally' = [k |-> IF last'.err = NoError THEN tally.k + 1 ELSE tally.k,
                 partial |-> \/ tally.partial
                             \/ last'.err # NoError /\ Len(last'.calls) = 2]

\* The calls of a session in which no boxer is deleted and the counters are
\* written by fights alone.
TallyNext ==
    \/ CreateBoxer /\ UNCHANGED tally
    \/ EnterRing /\ UNCHANGED tally
    \/ ClearRing /\ UNCHANGED tally
    \/ GetBoxers /\ UNCHANGED tally
    \/ GetLeaderboard /\ UNCHANGED tally
    \/ TallyFight

TallySpec == Init /\ [][TallyNext]_vars

(* ------------------------------------------------------------ the claims *)

Returned == last.err = NoError
Raised == last.err # NoError

\* C1: the ring holds 0, 1 or 2 boxers after any sequence of calls, each
\* succeeding or failing, and none at construction.
C1_RingSize ==
    /\ Len(ring) \in {0, 1, 2}
    /\ last.op = "__init__" => ring = <<>>

\* A third boxer was refused by a ring of two.
C1_Witness ==
    /\ last.op = "enter_ring" /\ Raised
    /\ isinstance_Boxer(last.arg)
    /\ Len(ring) = 2

\* C2: a fight() that starts with two boxers and returns invokes one 'win'
\* update and one 'loss' update, on the ids of the two occupants, and the two
\* ids differ.
C2_DistinctIds ==
    (last.op = "fight" /\ Returned /\ Len(last.ring0) = 2) =>
        /\ Len(last.calls) = 2
        /\ Cardinality({k \in 1..2 : last.calls[k][2] = "win"}) = 1
        /\ Cardinality({k \in 1..2 : last.calls[k][2] = "loss"}) = 1
        /\ {last.calls[1][1], last.calls[2][1]}
               = {last.ring0[1].id, last.ring0[2].id}
        /\ last.calls[1][1] # last.calls[2][1]

\* C3: a fight() that returns leaves the ring empty, so get_boxers() gives
\* the empty sequence right after it, whoever fought and whatever was drawn.
C3_FightClears ==
    (last.op = "fight" /\ Returned) => (ring = <<>> /\ get_boxers(ring) = <<>>)

\* A fight between two boxers returned.
C3_Witness ==
    /\ last.op = "fight" /\ Returned
    /\ Len(last.ring0) = 2
    /\ last.ring0[1].id # last.ring0[2].id

\* C4: fight() with 0 or 1 boxers raises ValueError (there must be two
\* boxers), leaves the ring as it was, asks for no random number and updates
\* no stat.
C4_TooFew ==
    (last.op = "fight" /\ Len(last.ring0) < 2) =>
        /\ last.err = ValueError("There must be two boxers to start a fight.")
        /\ ring = last.ring0
        /\ last.rand = ""
        /\ last.calls = <<>>
        /\ boxers = last.db0

\* fight() was called with one boxer in the ring, stored in the repository.
C4_Witness ==
    /\ last.op = "fight"
    /\ Len(last.ring0) = 1
    /\ last.ring0[1].id \in DOMAIN last.db0

\* C5: with boxer_1 the first occupant and boxer_2 the second, a draw below
\* the logistic of the absolute skill gap gives boxer_1 the 'win' update and
\* boxer_2 the 'loss' update and returns boxer_1's name; any other draw gives
\* boxer_2 the 'win', boxer_1 the 'loss' and returns boxer_2's name.  A draw
\* below 0.5 is below every such value; at equal skills 0.5 is not.
C5_WinnerBranch ==
    (last.op = "fight" /\ last.rand = "ok") =>
        LET b1 == last.ring0[1]
            b2 == last.ring0[2]
            gap == abs(get_fighting_skill(b1) - get_fighting_skill(b2))
            first == \/ last.r < 50
                     \/ last.r >= 50 /\ gap > LogitPct[last.r - 49]
            w == IF first THEN b1 ELSE b2
            l == IF first THEN b2 ELSE b1
        IN  /\ last.calls[1] = <<w.id, "win">>
            /\ Len(last.calls) = 2 => last.calls[2] = <<l.id, "loss">>
            /\ Returned => (Len(last.calls) = 2 /\ last.ret = w.name)
            /\ (gap = 0 /\ last.r = 50) => last.calls[1][1] = b2.id

\* A fight between boxers of different names returned the second one's name:
\* the draw was not below the value.
C5_Witness ==
    /\ last.op = "fight" /\ Returned
    /\ last.ring0[1].name # last.ring0[2].name
    /\ last.ret = last.ring0[2].name
    /\ last.r = 99

\* C6: when get_random fails, fight() raises that failure, the ring holds the
\* same two boxers in the same order and no stat was updated.
C6_RandomFailure ==
    (last.op = "fight" /\ last.rand \in RandomFailures) =>
        /\ last.err = get_random([kind |-> last.rand, value |-> -1]).err
        /\ Raised
        /\ Len(ring) = 2
        /\ ring = last.ring0
        /\ last.calls = <<>>
        /\ boxers = last.db0

\* get_random timed out in a fight between two stored boxers.
C6_Witness ==
    /\ last.op = "fight" /\ last.rand = "Timeout"
    /\ last.err.type = "RuntimeError"
    /\ \A k \in 1..2 : last.ring0[k].id \in DOMAIN last.db0

\* C7: when the 'loss' update is refused after the 'win' update was applied,
\* fight() raises and the winner's fights and wins stay one higher.
C7_NoRollback ==
    (last.op = "fight" /\ Len(last.calls) = 2 /\ Raised) =>
        LET w == last.calls[1][1] IN
        /\ last.err \in {ValueError("Boxer with ID not found."), SqliteError}
        /\ w \in DOMAIN boxers
        /\ boxers[w].fights = last.db0[w].fights + 1
        /\ boxers[w].wins = last.db0[w].wins + 1

\* The loser had been deleted from the repository: its update found no row.
C7_Witness ==
    /\ last.op = "fight" /\ Len(last.calls) = 2
    /\ last.err = ValueError("Boxer with ID not found.")
    /\ last.calls[2][1] \notin DOMAIN last.db0

\* C8: enter_ring(boxer) on a ring of two raises ValueError (ring is full)
\* and leaves the two occupants and their order as they were.
C8_RingFull ==
    (last.op = "enter_ring" /\ isinstance_Boxer(last.arg) /\ Len(last.ring0) = 2) =>
        /\ last.err = ValueError("Ring is full, cannot add more boxers.")
        /\ ring = last.ring0

\* A boxer who is not in the ring was refused by a ring of two.
C8_Witness ==
    /\ last.op = "enter_ring" /\ isinstance_Boxer(last.arg)
    /\ Len(last.ring0) = 2
    /\ \A k \in 1..2 : last.ring0[k] # last.arg

\* C9: enter_ring(x) with x no Boxer raises TypeError in every state of the
\* ring, a full ring included, and leaves the ring as it was.
C9_TypeFirst ==
    (last.op = "enter_ring" /\ ~isinstance_Boxer(last.arg)) =>
        /\ last.err.type = "TypeError"
        /\ ring = last.ring0

\* A value that is no Boxer was offered to a ring of two.
C9_Witness ==
    /\ last.op = "enter_ring" /\ ~isinstance_Boxer(last.arg)
    /\ Len(last.ring0) = 2

\* C10: an enter_ring(boxer) that returns puts the boxer at the end of the
\* ring and changes nothing else: an empty ring holds that boxer alone, a ring
\* of one holds the earlier boxer first and the new one second; get_boxers()
\* returns the occupants in that order.
C10_Append ==
    /\ (last.op = "enter_ring" /\ Returned) =>
          /\ Len(last.ring0) < 2
          /\ Len(ring) = Len(last.ring0) + 1
          /\ \A k \in 1..Len(last.ring0) : ring[k] = last.ring0[k]
          /\ ring[Len(ring)] = last.arg
          /\ boxers = last.db0
    /\ last.op = "get_boxers" => (last.ret = ring /\ ring = last.ring0)

\* A second, different boxer entered a ring of one.
C10_Witness ==
    /\ last.op = "enter_ring" /\ Returned
    /\ Len(last.ring0) = 1
    /\ last.ring0[1] # last.arg

\* C11: clear_ring() never raises and leaves the ring empty, whether it held
\* 0, 1 or 2 boxers; clearing again changes nothing; the repository is as it
\* was.
C11_ClearRing ==
    last.op = "clear_ring" =>
        /\ Returned
        /\ ring = <<>>
        /\ clear_ring(ring) = ring
        /\ clear_ring(clear_ring(last.ring0)) = clear_ring(last.ring0)
        /\ boxers = last.db0

\* A ring of two was cleared while the repository held a boxer.
C11_Witness ==
    /\ last.op = "clear_ring"
    /\ Len(last.ring0) = 2
    /\ ring = <<>>
    /\ DOMAIN boxers # {}

\* C12: every stored boxer's fights and wins are non-negative integers with
\* wins <= fights, after any sequence of create_boxer, delete_boxer and
\* update_boxer_stats calls and of fights.
C12_Counters ==
    \A i \in DOMAIN boxers :
        /\ boxers[i].fights \in Nat
        /\ boxers[i].wins \in Nat
        /\ boxers[i].wins <= boxers[i].fights

\* A fight returned that gave a boxer, who had a fight on record from before,
\* one more; another stored boxer has as many wins as fights.
C12_Witness ==
    /\ last.op = "fight" /\ Returned
    /\ \E i \in DOMAIN boxers :
          /\ i \in DOMAIN last.db0
          /\ last.db0[i].fights = 1
          /\ boxers[i].fights = 2
          /\ boxers[i].wins < boxers[i].fights
    /\ \E j \in DOMAIN boxers : boxers[j].fights > 0 /\ boxers[j].wins = boxers[j].fights

\* C13: update_boxer_stats(id, result) for a stored id and a result 'win' or
\* 'loss' returns, unless the database raises; when it returns, that boxer's
\* fights is one higher, its wins is one higher for 'win' and the same for
\* 'loss', its attributes are the same, and every other row is as it was.
C13_StatUpdate ==
    last.op = "update_boxer_stats" =>
        LET id == last.arg.id IN
        /\ (id \in DOMAIN last.db0 /\ last.arg.result \in {"win", "loss"})
              => (Returned \/ last.err = SqliteError)
        /\ Returned =>
              /\ id \in DOMAIN last.db0
              /\ DOMAIN boxers = DOMAIN last.db0
              /\ boxers[id].fights = last.db0[id].fights + 1
              /\ last.arg.result = "win" => boxers[id].wins = last.db0[id].wins + 1
              /\ last.arg.result = "loss" => boxers[id].wins = last.db0[id].wins
              /\ last.arg.result \in {"win", "loss"}
              /\ boxers[id] = [last.db0[id] EXCEPT !.fights = boxers[id].fights,
                                                   !.wins = boxers[id].wins]
              /\ \A j \in DOMAIN boxers \ {id} : boxers[j] = last.db0[j]

\* A loss was recorded for one of two stored boxers.
C13_Witness ==
    /\ last.op = "update_boxer_stats" /\ Returned
    /\ last.arg.result = "loss"
    /\ Cardinality(DOMAIN last.db0) = 2

\* C14: update_boxer_stats(id, result) raises ValueError (invalid result) when
\* result is neither 'win' nor 'loss', whether or not the id is stored; it
\* raises ValueError (boxer not found) when result is 'win' or 'loss' and the
\* id is not stored, unless the database itself raises.  No row changes in
\* either case.
C14_StatErrors ==
    last.op = "update_boxer_stats" =>
        /\ last.arg.result \notin {"win", "loss"} =>
              /\ last.err = ValueError("Invalid result. Expected 'win' or 'loss'.")
              /\ boxers = last.db0
        /\ (last.arg.result \in {"win", "loss"} /\ last.arg.id \notin DOMAIN last.db0) =>
              /\ last.err \in {ValueError("Boxer with ID not found."), SqliteError}
              /\ boxers = last.db0

\* 'draw' was given for an id that is not stored, while a boxer with a fight
\* on record is.
C14_Witness ==
    /\ last.op = "update_boxer_stats"
    /\ last.arg.result = "draw"
    /\ last.arg.id \notin DOMAIN last.db0
    /\ \E j \in DOMAIN last.db0 : last.db0[j].fights > 0

\* C15: get_weight_class(w) returns HEAVYWEIGHT for w >= 203, MIDDLEWEIGHT
\* for 166 <= w < 203, LIGHTWEIGHT for 133 <= w < 166, FEATHERWEIGHT for
\* 125 <= w < 133, and raises ValueError for every w < 125; so every
\* w >= 125 gets exactly one of the four bands.
C15_WeightClass ==
    last.op = "get_weight_class" =>
        LET w == last.arg.weight IN
        /\ w >= 203 => (Returned /\ last.ret = "HEAVYWEIGHT")
        /\ (166 <= w /\ w < 203) => (Returned /\ last.ret = "MIDDLEWEIGHT")
        /\ (133 <= w /\ w < 166) => (Returned /\ last.ret = "LIGHTWEIGHT")
        /\ (125 <= w /\ w < 133) => (Returned /\ last.ret = "FEATHERWEIGHT")
        /\ w < 125 => last.err.type = "ValueError"
        /\ Returned <=> w >= 125

\* The weight on the heavyweight boundary was classified.
C15_Witness ==
    /\ last.op = "get_weight_class"
    /\ last.arg.weight = 203
    /\ last.ret = "HEAVYWEIGHT"

\* C16: get_fighting_skill(boxer) is weight * len(name) + reach / 10 +
\* age_modifier, age_modifier being -1 for age < 25, 0 for 25 <= age <= 35 and
\* -2 for age > 35 (here in hundredths); every boxer with the same weight,
\* name, reach and age has the same skill, whatever its id and height.
C16_Skill ==
    last.op = "get_fighting_skill" =>
        LET b == last.arg
            modifier == IF b.age < 25 THEN -1 ELSE IF b.age <= 35 THEN 0 ELSE -2
        IN  /\ Returned
            /\ last.ret = 100 * (b.weight * Len(b.name)) + b.reach + 100 * modifier
            /\ \A c \in SkillInputs :
                  (c.weight = b.weight /\ c.name = b.name /\ c.reach = b.reach
                      /\ c.age = b.age)
                  => get_fighting_skill(c) = last.ret

\* The skill of a boxer aged exactly 25 was computed.
C16_Witness ==
    /\ last.op = "get_fighting_skill"
    /\ last.arg.age = 25
    /\ last.arg.id = 2

\* C17: create_boxer raises ValueError for the attribute and stores nothing
\* when weight < 125, height <= 0, reach <= 0 or age is outside 18..40; so
\* every stored boxer has weight >= 125, height > 0, reach > 0 and
\* 18 <= age <= 40, after any sequence of calls.
C17_ValidAttributes ==
    /\ \A i \in DOMAIN boxers :
          /\ boxers[i].weight >= 125
          /\ boxers[i].height > 0
          /\ boxers[i].reach > 0
          /\ 18 <= boxers[i].age /\ boxers[i].age <= 40
    /\ last.op = "create_boxer" =>
          LET c == last.arg IN
          (c.weight < 125 \/ c.height <= 0 \/ c.reach <= 0 \/ c.age < 18 \/ c.age > 40)
          => /\ last.err \in
                  { ValueError("Invalid weight. Must be at least 125."),
                    ValueError("Invalid height. Must be greater than 0."),
                    ValueError("Invalid reach. Must be greater than 0."),
                    ValueError("Invalid age. Must be between 18 and 40.") }
             /\ boxers = last.db0

\* A boxer of height 0 was refused while another boxer was stored.
C17_Witness ==
    /\ last.op = "create_boxer"
    /\ last.arg.height = 0
    /\ Raised
    /\ DOMAIN last.db0 # {}

\* C18: no two stored boxers have the same name; create_boxer with valid
\* attributes and a name that is stored raises ValueError (name already
\* exists), or the database's own error, and leaves every row as it was.
C18_UniqueNames ==
    /\ \A i, j \in DOMAIN boxers : boxers[i].name = boxers[j].name => i = j
    /\ last.op = "create_boxer" =>
          LET c == last.arg IN
          (/\ c.weight >= 125 /\ c.height > 0 /\ c.reach > 0
           /\ 18 <= c.age /\ c.age <= 40
           /\ \E i \in DOMAIN last.db0 : last.db0[i].name = c.name)
          => /\ last.err \in {ValueError("Boxer with name already exists"), SqliteError}
             /\ boxers = last.db0

\* A stored name was given to create_boxer again and refused.
C18_Witness ==
    /\ last.op = "create_boxer"
    /\ last.err = ValueError("Boxer with name already exists")
    /\ \E i \in DOMAIN boxers : boxers[i].name = last.arg.name

\* C19: get_leaderboard(sort_by) with sort_by 'wins' or 'win_pct' returns
\* exactly the stored boxers with fights > 0, each once, in non-increasing
\* order of wins, or of wins / fights, each with its stored attributes and
\* the weight class of its stored weight; any other sort_by raises ValueError
\* (invalid sort_by), whether or not the database would have raised.
C19_Leaderboard ==
    last.op = "get_leaderboard" =>
        /\ last.arg.sort_by \notin {"wins", "win_pct"} =>
              last.err = ValueError("Invalid sort_by parameter")
        /\ (last.arg.sort_by \in {"wins", "win_pct"} /\ Returned) =>
              LET L == last.ret
                  listed == { L[k].id : k \in 1..Len(L) }
              IN  /\ listed = { i \in DOMAIN boxers : boxers[i].fights > 0 }
                  /\ Len(L) = Cardinality(listed)
                  /\ \A k \in 1..Len(L) :
                        /\ L[k].name = boxers[L[k].id].name
                        /\ L[k].weight = boxers[L[k].id].weight
                        /\ L[k].fights = boxers[L[k].id].fights
                        /\ L[k].wins = boxers[L[k].id].wins
                        /\ L[k].weight_class = get_weight_class(boxers[L[k].id].weight)
                  /\ \A a, b \in 1..Len(L) : a < b =>
                        IF last.arg.sort_by = "wins"
                        THEN L[a].wins >= L[b].wins
                        ELSE L[a].wins * L[b].fights >= L[b].wins * L[a].fights

\* A leaderboard by win_pct listed the second boxer ahead of the first, its
\* ratio being strictly higher with no more wins.
C19_Witness ==
    /\ last.op = "get_leaderboard" /\ Returned
    /\ last.arg.sort_by = "win_pct"
    /\ Len(last.ret) = 2
    /\ last.ret[1].id = 2
    /\ last.ret[1].wins * last.ret[2].fights > last.ret[2].wins * last.ret[1].fights
    /\ last.ret[1].wins <= last.ret[2].wins

\* C20: in a fight between occupants of different skills that drew r < 0.5,
\* the name returned is that of the occupant with the higher skill, whichever
\* of the two entered the ring first.
C20_SkilledFavored ==
    (last.op = "fight" /\ Returned /\ last.r < 50) =>
        LET b1 == last.ring0[1]
            b2 == last.ring0[2]
            s1 == get_fighting_skill(b1)
            s2 == get_fighting_skill(b2)
        IN  s1 # s2 => last.ret = (IF s1 > s2 THEN b1 ELSE b2).name

\* C21: whenever fight() raises (fewer than two boxers, a failure of
\* get_random, or a 'win' or 'loss' update that raises), the ring holds the
\* boxers it held before the call, in the same order; a fight that changed
\* the ring returned after both of its stat updates.
C21_FailedFightKeepsRing ==
    last.op = "fight" =>
        /\ Raised => ring = last.ring0
        /\ ring # last.ring0 =>
              /\ Returned
              /\ ring = <<>>
              /\ Len(last.calls) = 2

\* The first occupant, deleted from the repository after entering, was to get
\* the 'win': the update found no row and fight() raised with a ring of two.
C21_Witness ==
    /\ last.op = "fight" /\ Raised
    /\ Len(last.calls) = 1
    /\ last.err = ValueError("Boxer with ID not found.")
    /\ last.calls[1][1] \notin DOMAIN last.db0
    /\ last.calls[1][1] = last.ring0[1].id
    /\ DOMAIN last.db0 # {}
    /\ Len(ring) = 2

\* The sum of a counter over the rows of the given ids.
RECURSIVE Total(_, _, _)
Total(db, counter, ids) ==
    IF ids = {} THEN 0
    ELSE LET i == CHOOSE j \in ids : TRUE
         IN  db[i][counter] + Total(db, counter, ids \ {i})

\* C22: from an empty repository, with rows created at fights = 0 and
\* wins = 0, no boxer deleted and no fight() that raised after its first stat
\* update, the sum of fights over the stored boxers is twice the number of
\* fight() calls that returned and the sum of wins is that number; and
\* enter_ring, clear_ring, get_boxers and get_leaderboard change no row.
C22_Conservation ==
    /\ ~tally.partial =>
          /\ Total(boxers, "fights", DOMAIN boxers) = 2 * tally.k
          /\ Total(boxers, "wins", DOMAIN boxers) = tally.k
    /\ last.op \in {"enter_ring", "clear_ring", "get_boxers", "get_leaderboard"}
          => boxers = last.db0

\* Two fights have returned, between two stored boxers, and none had failed
\* after its first update.
C22_Witness ==
    /\ tally.k = 2 /\ ~tally.partial
    /\ last.op = "fight" /\ Returned
    /\ Cardinality(DOMAIN boxers) = 2
    /\ \A i \in DOMAIN boxers : boxers[i].fights > 0

====
